---- MODULE Spec2Model ----
(***************************************************************************)
(* Resource lifecycle of vk_llw: reference-counted handles (Arc) around    *)
(* unique resources that own one native handle, the device they were       *)
(* created on and the handles they keep alive.                             *)
(*                                                                         *)
(* Objects are numbered.  Object 1 is the instance, object 2 the device;   *)
(* the other numbers are given, in order, to every attempt to create a     *)
(* resource.  A thread that drops the last handle of an object runs its    *)
(* destruction on its own stack: `pending[t]' is what thread t still has   *)
(* to do before the call it is in returns.                                 *)
(*                                                                         *)
(* Operations that own no resource (comparisons, Queue::get,               *)
(* BindingInfo::new, debug_layers) are modelled by `call': the arguments   *)
(* of one call and what it returned.                                       *)
(*                                                                         *)
(* The log of the generic layer is followed by `events': the messages      *)
(* written and the native calls made by a thread, in order.                *)
(***************************************************************************)
EXTENDS Integers, Sequences, FiniteSets, TLC

\* ---------------------------------------------------------------- bounds
MaxObj == 5              \* objects 1..MaxObj: instance, device, attempts
MaxRc == 2               \* Clone is not taken at or above this strong count
MaxDeps == 2             \* longest dependency list passed to construct
MaxBindings == 2         \* longest binding list given to the layout builder
MaxBindingSamplers == 1  \* most samplers carried by one binding
MaxConcObj == 4          \* last object number used when several threads run
MaxDevObj == 4           \* last object number used when every builder runs
MaxHandle == 2           \* native handle values 1..MaxHandle
MaxEqDeps == 1           \* longest dependency list of a compared resource
MaxFamily == 1           \* queue family indices 0..MaxFamily
MaxQueueCount == 2       \* most queues in one family
MaxNewSamplers == 2      \* most samplers carried by a descriptor type
MaxLayers == 2           \* most instance layers the loader reports
MaxLogObj == 4           \* last object number used when the log is followed
MaxInfo == 1             \* create-info values 1..MaxInfo shown in the log
MaxBatch == 2            \* most command buffers in one batch
MaxInstObj == 4          \* last object number used when devices are built
MaxMessage == 2          \* bytes of a report message
MaxName == 3             \* elements of a raw name array
MaxQInfos == 2           \* queue infos given to QueueCreateInfosBuilder::new
MaxPDevices == 2         \* physical devices enumerated
MaxPFamilies == 2        \* queue families of one physical device

Threads == {1, 2}
Obj == 1..MaxObj
InstanceId == 1
DeviceId == 2

\* vk::Result: SUCCESS and two error codes the native create calls can return
VkSuccess == "SUCCESS"
ErrCodes == {"ERROR_OUT_OF_HOST_MEMORY", "ERROR_OUT_OF_DEVICE_MEMORY"}
CreateOutcomes == {VkSuccess} \cup ErrCodes

VARIABLES
    kind,        \* kind[o]: "none", "instance", "device", "generic", "sampler", "dsl",
                 \*          "memory", "buffer", "pool", "cmdbufs", "debug_report"
    status,      \* status[o]: "unused", "live", "dropping" (count reached 0), "failed"
    rc,          \* rc[o]: strong count of the Arc around unique resource o
    fields,      \* fields[o]: handles owned by unique resource o, in drop order
    held,        \* held[t][o]: handles of o owned by thread t
    pending,     \* pending[t]: destroy/release steps left in t's current call
    result,      \* result[t]: value returned by t's last build call, with the
                 \* handles moved into it and what its native create call returned
    destroyed,   \* destroyed[o]: number of native destroy calls made for o
    released,    \* released[o]: number of fields of o released so far
    destroyedBy, \* destroyedBy[o]: thread that made the native destroy call (0: none)
    destroyedWith, \* destroyedWith[o]: device and destroy context that call was given
    call,        \* the last call of an operation that owns no resource: its
                 \* arguments and what it returned
    events       \* events[t]: log messages and native calls of thread t since it
                 \* last entered a constructor or a builder, in the order they
                 \* were made (recorded when the log is followed)

vars == <<kind, status, rc, fields, held, pending, result,
          destroyed, released, destroyedBy, destroyedWith, call, events>>

\* ---------------------------------------------------------------- helpers
SeqsUpTo(S, n) == UNION {[1..k -> S] : k \in 0..n}

Count(s, x) == Cardinality({i \in DOMAIN s : s[i] = x})

RECURSIVE Flatten(_)
Flatten(ss) == IF ss = <<>> THEN <<>> ELSE Head(ss) \o Flatten(Tail(ss))

RECURSIVE SumOver(_, _)
SumOver(S, f) ==
    IF S = {} THEN 0
    ELSE LET x == CHOOSE y \in S : TRUE IN f[x] + SumOver(S \ {x}, f)

NoResult == [ok |-> TRUE, obj |-> 0, err |-> VkSuccess, variant |-> "none",
             passed |-> <<>>, native |-> VkSuccess]

DestroyOp(o) == [op |-> "destroy", obj |-> o, of |-> o]
ReleaseOp(d, owner) == [op |-> "release", obj |-> d, of |-> owner]
ReleaseAll(s, owner) == [i \in 1..Len(s) |-> ReleaseOp(s[i], owner)]

\* type DestroyInfo = (): the kind needs nothing but its device to be destroyed
NoContext == 0
NoArgs == [dev |-> 0, ctx |-> NoContext]
NoCall == [fn |-> "none"]

\* ------------------------------------------------------- drop of a resource
\* Kinds whose unique resource has a Drop impl making the native destroy call.
\* UniqueDescriptorSetLayout has none: its fields are dropped and nothing else.
HasDrop(k) == k \in {"instance", "device", "generic", "sampler", "memory", "buffer",
                     "pool", "cmdbufs", "debug_report"}

\* Variant: the dependency list is released before the native destroy call.
DropOpsDepsFirst(o) ==
    IF fields[o] = <<>> THEN (IF HasDrop(kind[o]) THEN <<DestroyOp(o)>> ELSE <<>>)
    ELSE ReleaseAll(Tail(fields[o]), o)
         \o (IF HasDrop(kind[o]) THEN <<DestroyOp(o)>> ELSE <<>>)
         \o ReleaseAll(<<Head(fields[o])>>, o)

\* Variant: the fields go first and the native destroy call last.
DropOpsDestroyLast(o) ==
    ReleaseAll(fields[o], o) \o (IF HasDrop(kind[o]) THEN <<DestroyOp(o)>> ELSE <<>>)

\* Dropping unique resource o: Drop::drop (the native destroy call), then the
\* fields in declaration order.
DropOps(o) ==
    (IF HasDrop(kind[o]) THEN <<DestroyOp(o)>> ELSE <<>>) \o ReleaseAll(fields[o], o)

\* The destroy context a generic unique resource was constructed with: () for
\* the kinds built through it (shader module).
GenericDestroyInfo(o) == NoContext

\* Variant: the batch is freed with no pool.
DestroyArgsNoPool(o) ==
    IF kind[o] \in {"instance", "device"} THEN [dev |-> o, ctx |-> NoContext]
    ELSE IF kind[o] = "cmdbufs" THEN [dev |-> fields[o][2], ctx |-> NoContext]
    ELSE [dev |-> fields[o][1], ctx |-> NoContext]

\* What Drop::drop of unique resource o gives its native destroy call: the
\* device (for a debug report, the instance) it keeps and the destroy context.
\* A batch of command buffers is freed on its device field from its pool field;
\* instance and device are destroyed through their own handle.
DestroyArgs(o) ==
    IF kind[o] \in {"instance", "device"} THEN [dev |-> o, ctx |-> NoContext]
    ELSE IF kind[o] = "cmdbufs" THEN [dev |-> fields[o][2], ctx |-> fields[o][1]]
    ELSE IF kind[o] = "generic" THEN [dev |-> fields[o][1], ctx |-> GenericDestroyInfo(o)]
    ELSE [dev |-> fields[o][1], ctx |-> NoContext]

\* Variants: the new count is compared instead of the old one (the resource is
\* never dropped); the resource is dropped one release too early.
IsLastComparesNew(prev) == prev = 0
IsLastEarly(prev) == prev <= 2

\* Arc::drop: fetch_sub(1) returned `prev'; the unique resource is dropped by
\* the caller that took the count from 1 to 0.
IsLast(prev) == prev = 1

\* Variant: the unique resource is handed to another thread to be dropped.
ArcReleaseDeferred(t, d, rest) ==
    /\ rc' = [rc EXCEPT ![d] = @ - 1]
    /\ IF IsLast(rc[d])
       THEN /\ status' = [status EXCEPT ![d] = "dropping"]
            /\ pending' = [u \in Threads |->
                              IF u = t THEN rest ELSE pending[u] \o DropOps(d)]
       ELSE /\ UNCHANGED status
            /\ pending' = [pending EXCEPT ![t] = rest]

\* Thread t releases one handle of d and goes on with `rest'.
ArcRelease(t, d, rest) ==
    /\ rc' = [rc EXCEPT ![d] = @ - 1]
    /\ IF IsLast(rc[d])
       THEN /\ status' = [status EXCEPT ![d] = "dropping"]
            /\ pending' = [pending EXCEPT ![t] = DropOps(d) \o rest]
       ELSE /\ UNCHANGED status
            /\ pending' = [pending EXCEPT ![t] = rest]

Idle(t) == pending[t] = <<>>

\* The smallest number not yet given to an attempt.
Unused == {o \in Obj : status[o] = "unused"}
NewId == CHOOSE o \in Unused : \A p \in Unused : o <= p

HeldOf(t, k) == {o \in Obj : kind[o] = k /\ status[o] = "live" /\ held[t][o] > 0}

\* held[t] after the handles in s were moved out of it
MoveOut(h, s) == [o \in Obj |-> h[o] - Count(s, o)]
CanMove(t, s) == \A o \in Obj : Count(s, o) <= held[t][o]

\* ---------------------------------------------------------------- actions
Init ==
    /\ kind = [o \in Obj |-> IF o = InstanceId THEN "instance"
                             ELSE IF o = DeviceId THEN "device" ELSE "none"]
    /\ status = [o \in Obj |-> IF o \in {InstanceId, DeviceId} THEN "live" ELSE "unused"]
    /\ rc = [o \in Obj |-> IF o \in {InstanceId, DeviceId} THEN 1 ELSE 0]
    /\ fields = [o \in Obj |-> IF o = DeviceId THEN <<InstanceId>> ELSE <<>>]
    /\ held = [t \in Threads |-> [o \in Obj |-> IF t = 1 /\ o = DeviceId THEN 1 ELSE 0]]
    /\ pending = [t \in Threads |-> <<>>]
    /\ result = [t \in Threads |-> NoResult]
    /\ destroyed = [o \in Obj |-> 0]
    /\ released = [o \in Obj |-> 0]
    /\ destroyedBy = [o \in Obj |-> 0]
    /\ destroyedWith = [o \in Obj |-> NoArgs]
    /\ call = NoCall
    /\ events = [t \in Threads |-> <<>>]

\* Variant: the handle is copied and the count left as it was.
CloneNoCount(t, u, o) ==
    /\ Idle(t)
    /\ held[t][o] > 0
    /\ rc[o] < MaxRc
    /\ held' = [held EXCEPT ![u][o] = @ + 1]
    /\ UNCHANGED <<kind, status, rc, fields, pending, result,
                   destroyed, released, destroyedBy, destroyedWith, call>>

\* Variant: the increment is lost when the clone goes to another thread.
CloneLost(t, u, o) ==
    /\ Idle(t)
    /\ held[t][o] > 0
    /\ rc[o] < MaxRc
    /\ rc' = [rc EXCEPT ![o] = IF u = t THEN @ + 1 ELSE @]
    /\ held' = [held EXCEPT ![u][o] = @ + 1]
    /\ UNCHANGED <<kind, status, fields, pending, result,
                   destroyed, released, destroyedBy, destroyedWith, call>>

\* #[derive(Clone)]: thread t clones a handle it owns; the clone goes to u.
Clone(t, u, o) ==
    /\ Idle(t)
    /\ held[t][o] > 0
    /\ rc[o] < MaxRc
    /\ rc' = [rc EXCEPT ![o] = @ + 1]
    /\ held' = [held EXCEPT ![u][o] = @ + 1]
    /\ UNCHANGED <<kind, status, fields, pending, result,
                   destroyed, released, destroyedBy, destroyedWith, call>>

\* Thread t drops a handle it owns.
DropHandle(t, o) ==
    /\ Idle(t)
    /\ held[t][o] > 0
    /\ held' = [held EXCEPT ![t][o] = @ - 1]
    /\ ArcRelease(t, o, <<>>)
    /\ UNCHANGED <<kind, fields, result, destroyed, released, destroyedBy,
                   destroyedWith, call>>

\* Thread t takes the next step of the call it is in.
Step(t) ==
    /\ ~Idle(t)
    /\ LET op == Head(pending[t])
           rest == Tail(pending[t])
       IN IF op.op = "destroy"
          THEN /\ destroyed' = [destroyed EXCEPT ![op.obj] = @ + 1]
               /\ destroyedBy' = [destroyedBy EXCEPT ![op.obj] = t]
               /\ destroyedWith' = [destroyedWith EXCEPT ![op.obj] = DestroyArgs(op.obj)]
               /\ pending' = [pending EXCEPT ![t] = rest]
               /\ UNCHANGED <<rc, status, released>>
          ELSE /\ ArcRelease(t, op.obj, rest)
               /\ released' = IF op.of = 0 THEN released
                              ELSE [released EXCEPT ![op.of] = @ + 1]
               /\ UNCHANGED <<destroyed, destroyedBy, destroyedWith>>
    /\ UNCHANGED <<kind, fields, held, result, call>>

\* Variant: every failure is reported with one fixed code.
BuildResultOneCode(r, o, variant) ==
    IF r = VkSuccess THEN [ok |-> TRUE, obj |-> o, err |-> VkSuccess, variant |-> "none"]
    ELSE [ok |-> FALSE, obj |-> o, err |-> "ERROR_OUT_OF_HOST_MEMORY", variant |-> variant]

\* Variant: the native code is returned as it is, not wrapped in the error of
\* the kind.
BuildResultUnwrapped(r, o, variant) ==
    IF r = VkSuccess THEN [ok |-> TRUE, obj |-> o, err |-> VkSuccess, variant |-> "none"]
    ELSE [ok |-> FALSE, obj |-> o, err |-> r, variant |-> "VkResult"]

\* The value a build call returns for the native outcome r of attempt o.
BuildResult(r, o, variant) ==
    IF r = VkSuccess THEN [ok |-> TRUE, obj |-> o, err |-> VkSuccess, variant |-> "none"]
    ELSE [ok |-> FALSE, obj |-> o, err |-> r, variant |-> variant]

\* The returned value together with what went into the call.
CallRecord(r, o, variant, args) ==
    [f \in {"ok", "obj", "err", "variant", "passed", "native"} |->
        IF f = "passed" THEN args
        ELSE IF f = "native" THEN r
        ELSE BuildResult(r, o, variant)[f]]

\* Variant: the failed call forgets its dependency list without releasing it.
FailedNewArgsLeak(dev, deps) == ReleaseAll(<<dev>>, 0)

\* What a failed UniqueDeviceHandle::new still owns when it returns: its
\* parameters, dropped in reverse order of declaration.
FailedNewArgs(dev, deps) == ReleaseAll(deps \o <<dev>>, 0)

\* Variant: a new resource is also entered in the list of every resource it
\* depends on.
AttemptBackLinks(t, o, k, r, args, owned, after, variant) ==
    /\ kind' = [kind EXCEPT ![o] = k]
    /\ result' = [result EXCEPT ![t] = CallRecord(r, o, variant, args)]
    /\ pending' = [pending EXCEPT ![t] = after]
    /\ IF r = VkSuccess
       THEN /\ status' = [status EXCEPT ![o] = "live"]
            /\ fields' = [p \in Obj |->
                             IF p = o THEN owned
                             ELSE IF \E i \in 2..Len(owned) : owned[i] = p
                                  THEN fields[p] \o <<o>>
                                  ELSE fields[p]]
            /\ held' = [held EXCEPT ![t] = [MoveOut(@, args) EXCEPT ![o] = 1]]
       ELSE /\ status' = [status EXCEPT ![o] = "failed"]
            /\ UNCHANGED fields
            /\ held' = [held EXCEPT ![t] = MoveOut(@, args)]
    /\ UNCHANGED <<destroyed, released, destroyedBy, destroyedWith, call>>

\* State of attempt o of kind k, made by thread t with the handles `args' moved
\* in, `owned' the fields of the unique resource on success and `after' the
\* steps left before the call returns.
Attempt(t, o, k, r, args, owned, after, variant) ==
    /\ kind' = [kind EXCEPT ![o] = k]
    /\ result' = [result EXCEPT ![t] = CallRecord(r, o, variant, args)]
    /\ pending' = [pending EXCEPT ![t] = after]
    /\ IF r = VkSuccess
       THEN /\ status' = [status EXCEPT ![o] = "live"]
            /\ fields' = [fields EXCEPT ![o] = owned]
            /\ held' = [held EXCEPT ![t] = [MoveOut(@, args) EXCEPT ![o] = 1]]
       ELSE /\ status' = [status EXCEPT ![o] = "failed"]
            /\ UNCHANGED fields
            /\ held' = [held EXCEPT ![t] = MoveOut(@, args)]
    /\ UNCHANGED <<destroyed, released, destroyedBy, destroyedWith, call>>

\* UniqueDeviceHandle::new followed by DeviceHandle::new.
ConstructGeneric(t, dev, deps, r) ==
    /\ Idle(t)
    /\ Unused # {}
    /\ CanMove(t, <<dev>> \o deps)
    /\ Attempt(t, NewId, "generic", r, <<dev>> \o deps, <<dev>> \o deps,
               IF r = VkSuccess THEN <<>> ELSE FailedNewArgs(dev, deps), "VkResult")
    /\ rc' = [rc EXCEPT ![NewId] = IF r = VkSuccess THEN 1 ELSE 0]

\* SamplerBuilder::build: Sampler::new over UniqueSampler::new; on failure `?'
\* returns and the device parameter is dropped.
BuildSampler(t, dev, r) ==
    /\ Idle(t)
    /\ Unused # {}
    /\ CanMove(t, <<dev>>)
    /\ Attempt(t, NewId, "sampler", r, <<dev>>, <<dev>>,
               IF r = VkSuccess THEN <<>> ELSE ReleaseAll(<<dev>>, 0),
               "CreateSamplerError::VkError")
    /\ rc' = [rc EXCEPT ![NewId] = IF r = VkSuccess THEN 1 ELSE 0]

\* Variant: the layout keeps no sampler handle.
CollectSamplersNone(bindings) == <<>>

\* Variant: only the samplers of the first binding are collected.
CollectSamplersFirstBinding(bindings) ==
    IF bindings = <<>> THEN <<>> ELSE Head(bindings)

\* The dependency list DescriptorSetLayoutBuilder::build collects: a clone of
\* every sampler of every binding, in binding order.
CollectSamplers(bindings) == Flatten(bindings)

\* Variant: a failed build forgets the list it collected without releasing it.
LayoutBuildDropsLeak(dev, bindings, r) ==
    IF r = VkSuccess THEN ReleaseAll(Flatten(bindings), 0)
    ELSE ReleaseAll(<<dev>>, 0) \o ReleaseAll(Flatten(bindings), 0)

\* What is dropped before DescriptorSetLayoutBuilder::build returns.  On
\* success the builder (self) with its bindings; on failure, before that, the
\* parameters of UniqueDescriptorSetLayout::new in reverse order.
LayoutBuildDrops(dev, bindings, r) ==
    IF r = VkSuccess THEN ReleaseAll(Flatten(bindings), 0)
    ELSE ReleaseAll(CollectSamplers(bindings) \o <<dev>>, 0)
         \o ReleaseAll(Flatten(bindings), 0)

\* DescriptorSetLayoutBuilder::build over DescriptorSetLayout::new.  The
\* bindings own the sampler handles the caller moved into BindingInfo::new.
BuildLayout(t, dev, bindings, r) ==
    /\ Idle(t)
    /\ Unused # {}
    /\ CanMove(t, <<dev>> \o Flatten(bindings))
    /\ Attempt(t, NewId, "dsl", r, <<dev>> \o Flatten(bindings),
               <<dev>> \o CollectSamplers(bindings),
               LayoutBuildDrops(dev, bindings, r),
               "CreateDescriptorSetLayoutError::VkError")
    /\ rc' = [o \in Obj |->
                IF o = NewId THEN (IF r = VkSuccess THEN 1 ELSE 0)
                ELSE rc[o] + Count(CollectSamplers(bindings), o)]

BindingLists(t) ==
    SeqsUpTo(SeqsUpTo(HeldOf(t, "sampler"), MaxBindingSamplers), MaxBindings)

\* Variant: the device parameter is dropped when the call returns, also when
\* the resource was built (the resource keeps the raw device only).
NewDropsAlways(dev, r) == ReleaseAll(<<dev>>, 0)

\* What UniqueMemory::new, UniqueBuffer::new and UniqueCommandPool::new drop
\* before they return: nothing on success (the device moves into the
\* resource), the device parameter when `?' returns the error.
NewDrops(dev, r) == IF r = VkSuccess THEN <<>> ELSE ReleaseAll(<<dev>>, 0)

\* MemoryBuilder::build over Memory::new and UniqueMemory::new.
BuildMemory(t, dev, r) ==
    /\ Idle(t)
    /\ Unused # {}
    /\ CanMove(t, <<dev>>)
    /\ Attempt(t, NewId, "memory", r, <<dev>>, <<dev>>, NewDrops(dev, r),
               "MemAllocError::VkError")
    /\ rc' = [rc EXCEPT ![NewId] = IF r = VkSuccess THEN 1 ELSE 0]

\* BufferBuilder::build over Buffer::new and UniqueBuffer::new.
BuildBuffer(t, dev, r) ==
    /\ Idle(t)
    /\ Unused # {}
    /\ CanMove(t, <<dev>>)
    /\ Attempt(t, NewId, "buffer", r, <<dev>>, <<dev>>, NewDrops(dev, r),
               "CreateBufferError::VkError")
    /\ rc' = [rc EXCEPT ![NewId] = IF r = VkSuccess THEN 1 ELSE 0]

\* CommandPoolBuilder::build over CommandPool::new and UniqueCommandPool::new.
BuildCommandPool(t, dev, r) ==
    /\ Idle(t)
    /\ Unused # {}
    /\ CanMove(t, <<dev>>)
    /\ Attempt(t, NewId, "pool", r, <<dev>>, <<dev>>, NewDrops(dev, r),
               "CreateCommandPoolError::VkError")
    /\ rc' = [rc EXCEPT ![NewId] = IF r = VkSuccess THEN 1 ELSE 0]

\* Variant: the batch records the raw pool handle and the pool parameter is
\* dropped when allocate returns.
AllocateDropsPool(pool, dev, r) ==
    IF r = VkSuccess THEN ReleaseAll(<<pool>>, 0) ELSE ReleaseAll(<<pool, dev>>, 0)

\* What UniqueCommandBuffers::allocate(allocate_info, device, pool) drops
\* before it returns: on `?' its parameters, the last declared first.
AllocateDrops(pool, dev, r) ==
    IF r = VkSuccess THEN <<>> ELSE ReleaseAll(<<pool, dev>>, 0)

\* UniqueCommandBuffers { handles, pool, level, device }: the handles it owns.
BatchFields(pool, dev) == <<pool, dev>>

\* CommandBuffersBuilder::build(pool, device) over CommandBuffers::allocate.
BuildCommandBuffers(t, pool, dev, r) ==
    /\ Idle(t)
    /\ Unused # {}
    /\ CanMove(t, <<pool, dev>>)
    /\ Attempt(t, NewId, "cmdbufs", r, <<pool, dev>>, BatchFields(pool, dev),
               AllocateDrops(pool, dev, r), "AllocateCommandBuffersError::VkError")
    /\ rc' = [rc EXCEPT ![NewId] = IF r = VkSuccess THEN 1 ELSE 0]

\* Variant: the caller is given a handle of the instance that is not counted.
CloneInstanceNoCount(t, dev) ==
    /\ Idle(t)
    /\ held[t][dev] > 0
    /\ kind[dev] = "device"
    /\ rc[fields[dev][1]] < MaxRc
    /\ held' = [held EXCEPT ![t][fields[dev][1]] = @ + 1]
    /\ UNCHANGED <<kind, status, rc, fields, pending, result,
                   destroyed, released, destroyedBy, destroyedWith, call>>

\* device.instance().clone(): the caller takes a handle of the instance its
\* device was built on.
CloneInstance(t, dev) ==
    /\ Idle(t)
    /\ held[t][dev] > 0
    /\ kind[dev] = "device"
    /\ rc[fields[dev][1]] < MaxRc
    /\ rc' = [rc EXCEPT ![fields[dev][1]] = @ + 1]
    /\ held' = [held EXCEPT ![t][fields[dev][1]] = @ + 1]
    /\ UNCHANGED <<kind, status, fields, pending, result,
                   destroyed, released, destroyedBy, destroyedWith, call>>

\* DebugReportBuilder::build(instance) over DebugReport::new and
\* UniqueDebugReport::new; on failure `?' returns and the instance parameter
\* is dropped.
BuildDebugReport(t, inst, r) ==
    /\ Idle(t)
    /\ Unused # {}
    /\ CanMove(t, <<inst>>)
    /\ Attempt(t, NewId, "debug_report", r, <<inst>>, <<inst>>,
               IF r = VkSuccess THEN <<>> ELSE ReleaseAll(<<inst>>, 0),
               "CreateDebugReportError::VkError")
    /\ rc' = [rc EXCEPT ![NewId] = IF r = VkSuccess THEN 1 ELSE 0]

\* The user callback of debug-report attempt o: DebugReportBuilder::build boxes
\* and leaks it before the native create call, whatever that call returns, and
\* only Drop for UniqueDebugReport frees it (Box::from_raw), right after its
\* native destroy call.
CallbackAllocs(o) == IF kind[o] = "debug_report" THEN 1 ELSE 0
CallbackFrees(o) == IF kind[o] = "debug_report" THEN destroyed[o] ELSE 0

\* One caller thread: every kind of resource, every native outcome.
Caller == 1

Next ==
    \/ \E o \in Obj : Clone(Caller, Caller, o) /\ UNCHANGED events
    \/ \E o \in Obj : DropHandle(Caller, o) /\ UNCHANGED events
    \/ Step(Caller) /\ UNCHANGED events
    \/ \E r \in CreateOutcomes, dev \in HeldOf(Caller, "device") :
          \E deps \in SeqsUpTo(HeldOf(Caller, "generic"), MaxDeps) :
             ConstructGeneric(Caller, dev, deps, r) /\ UNCHANGED events
    \/ \E r \in CreateOutcomes, dev \in HeldOf(Caller, "device") :
          BuildSampler(Caller, dev, r) /\ UNCHANGED events
    \/ \E r \in CreateOutcomes, dev \in HeldOf(Caller, "device") :
          \E bindings \in BindingLists(Caller) : BuildLayout(Caller, dev, bindings, r) /\ UNCHANGED events

Spec == Init /\ [][Next]_vars

\* Several threads cloning, handing over and dropping handles of generic
\* resources whose native create call succeeds.
NextConc ==
    \/ \E t \in Threads, u \in Threads, o \in Obj : Clone(t, u, o) /\ UNCHANGED events
    \/ \E t \in Threads, o \in Obj : DropHandle(t, o) /\ UNCHANGED events
    \/ \E t \in Threads : Step(t) /\ UNCHANGED events
    \/ \E t \in Threads :
          \E dev \in HeldOf(t, "device"), deps \in SeqsUpTo(HeldOf(t, "generic"), MaxDeps) :
             /\ Unused # {}
             /\ NewId <= MaxConcObj
             /\ ConstructGeneric(t, dev, deps, VkSuccess)
             /\ UNCHANGED events

SpecConc == Init /\ [][NextConc]_vars

\* One caller using every builder of the crate; it clones the handles that
\* builders take by value and it still needs afterwards (device, pool).
CanBuild == Unused # {} /\ NewId <= MaxDevObj

NextDev ==
    \/ \E o \in HeldOf(Caller, "device") \cup HeldOf(Caller, "pool") :
          Clone(Caller, Caller, o) /\ UNCHANGED events
    \/ \E o \in Obj : DropHandle(Caller, o) /\ UNCHANGED events
    \/ Step(Caller) /\ UNCHANGED events
    \/ \E dev \in HeldOf(Caller, "device") : CloneInstance(Caller, dev) /\ UNCHANGED events
    \/ \E r \in CreateOutcomes, dev \in HeldOf(Caller, "device") :
          CanBuild /\ BuildMemory(Caller, dev, r) /\ UNCHANGED events
    \/ \E r \in CreateOutcomes, dev \in HeldOf(Caller, "device") :
          CanBuild /\ BuildBuffer(Caller, dev, r) /\ UNCHANGED events
    \/ \E r \in CreateOutcomes, dev \in HeldOf(Caller, "device") :
          CanBuild /\ BuildCommandPool(Caller, dev, r) /\ UNCHANGED events
    \/ \E r \in CreateOutcomes, dev \in HeldOf(Caller, "device") :
          \E pool \in HeldOf(Caller, "pool") :
             CanBuild /\ BuildCommandBuffers(Caller, pool, dev, r) /\ UNCHANGED events
    \/ \E r \in CreateOutcomes, inst \in HeldOf(Caller, "instance") :
          CanBuild /\ BuildDebugReport(Caller, inst, r) /\ UNCHANGED events
    \/ \E r \in CreateOutcomes, dev \in HeldOf(Caller, "device") :
          CanBuild /\ BuildSampler(Caller, dev, r) /\ UNCHANGED events
    \/ \E r \in CreateOutcomes, dev \in HeldOf(Caller, "device") :
          \E deps \in SeqsUpTo(HeldOf(Caller, "generic"), MaxDeps) :
             CanBuild /\ ConstructGeneric(Caller, dev, deps, r) /\ UNCHANGED events
    \/ \E r \in CreateOutcomes, dev \in HeldOf(Caller, "device") :
          \E bindings \in BindingLists(Caller) :
             CanBuild /\ BuildLayout(Caller, dev, bindings, r) /\ UNCHANGED events

SpecDev == Init /\ [][NextDev]_vars

\* ------------------------------------------------- the log of the generic layer
\* T::name() of the kinds built on the generic layer
RawNames == {"vulkan device memory", "vulkan buffer", "vulkan command pool",
             "vulkan command buffers", "vulkan sampler"}
\* create_info as the trace message displays it
CreateInfos == 1..MaxInfo

Event(ev, obj, of, text) == [ev |-> ev, obj |-> obj, of |-> of, text |-> text]

\* Variant: the trace message is written once the native call has returned.
NewEventsTraceLate(o, name, info, r) ==
    <<Event("create", o, 0, <<r>>),
      Event("trace", o, 0, <<"Creating", name, info>>)>>
    \o (IF r = VkSuccess THEN <<>>
        ELSE <<Event("warn", o, 0, <<"Creating", name, info, "failed", r>>)>>)

\* What UniqueDeviceHandle::new writes to the log and calls, in order, for
\* attempt o with native outcome r.
NewEvents(o, name, info, r) ==
    <<Event("trace", o, 0, <<"Creating", name, info>>),
      Event("create", o, 0, <<r>>)>>
    \o (IF r = VkSuccess THEN <<>>
        ELSE <<Event("warn", o, 0, <<"Creating", name, info, "failed", r>>)>>)

\* What one step of a destruction writes and calls: Drop::drop writes its trace
\* message and makes the native destroy call; each field is released after it.
StepEvents(op) ==
    IF op.op = "destroy"
    THEN <<Event("trace", op.obj, 0, <<"Destroying">>),
           Event("destroy", op.obj, 0, <<>>)>>
    ELSE <<Event("release", op.obj, op.of, <<>>)>>

Logged(t, es) == events' = [events EXCEPT ![t] = @ \o es]

CanLog == Unused # {} /\ NewId <= MaxLogObj

\* One caller of the generic layer whose log is followed.
NextLog ==
    \/ \E o \in HeldOf(Caller, "generic") \cup HeldOf(Caller, "device") :
          Clone(Caller, Caller, o) /\ UNCHANGED events
    \/ \E o \in Obj : DropHandle(Caller, o) /\ UNCHANGED events
    \/ ~Idle(Caller) /\ Step(Caller) /\ Logged(Caller, StepEvents(Head(pending[Caller])))
    \/ \E r \in CreateOutcomes, dev \in HeldOf(Caller, "device") :
          \E deps \in SeqsUpTo(HeldOf(Caller, "generic"), MaxDeps) :
             \E name \in RawNames, info \in CreateInfos :
                /\ CanLog
                /\ ConstructGeneric(Caller, dev, deps, r)
                /\ events' = [events EXCEPT ![Caller] = NewEvents(NewId, name, info, r)]

SpecLog == Init /\ [][NextLog]_vars

\* --------------------------------------------- what is built on the instance
\* What the physical-device selector given to DeviceBuilder returns: a physical
\* device, or PhysicalDeviceError::NotFound, or PhysicalDeviceError::VkError(e).
SelectorOutcomes ==
    {[ok |-> TRUE, variant |-> "none", err |-> VkSuccess],
     [ok |-> FALSE, variant |-> "PhysicalDeviceError::NotFound", err |-> "NOT_FOUND"]}
    \cup {[ok |-> FALSE, variant |-> "PhysicalDeviceError::VkError", err |-> e] : e \in ErrCodes}

NotCalled == "NOT_CALLED"

\* Variant: the selector's error is reported as a failure of the native call.
SelectorErrorAsVk(sel, args) ==
    [ok |-> FALSE, obj |-> 0, err |-> sel.err, variant |-> "CreateDeviceError::VkError",
     inner |-> "none", passed |-> args, native |-> sel.err]

\* What DeviceBuilder::build returns when `selector(&instance)?' fails: the
\* selector's error inside CreateDeviceError::PhysicalDeviceError; the native
\* create-device call was not reached.
SelectorError(sel, args) ==
    [ok |-> FALSE, obj |-> 0, err |-> sel.err,
     variant |-> "CreateDeviceError::PhysicalDeviceError",
     inner |-> sel.variant, passed |-> args, native |-> NotCalled]

\* DeviceBuilder::build(self, instance): the selector, then Device::new over
\* UniqueDevice::new.  On either failure `?' returns and the instance parameter
\* is dropped.
BuildDevice(t, inst, sel, r) ==
    /\ Idle(t)
    /\ CanMove(t, <<inst>>)
    /\ IF sel.ok
       THEN /\ Unused # {}
            /\ Attempt(t, NewId, "device", r, <<inst>>, <<inst>>,
                       IF r = VkSuccess THEN <<>> ELSE ReleaseAll(<<inst>>, 0),
                       "CreateDeviceError::VkError")
            /\ rc' = [rc EXCEPT ![NewId] = IF r = VkSuccess THEN 1 ELSE 0]
       ELSE /\ result' = [result EXCEPT ![t] = SelectorError(sel, <<inst>>)]
            /\ held' = [held EXCEPT ![t] = MoveOut(@, <<inst>>)]
            /\ pending' = [pending EXCEPT ![t] = ReleaseAll(<<inst>>, 0)]
            /\ UNCHANGED <<kind, status, fields, rc, destroyed, released,
                           destroyedBy, destroyedWith, call>>

\* Variant: the user callback is freed before the native callback is
\* unregistered.
DebugReportDropEventsFreeFirst(o) ==
    <<Event("trace", o, 0, <<"Destroying">>),
      Event("free", o, 0, <<>>),
      Event("destroy", o, 0, <<>>)>>

\* What Drop for UniqueDebugReport writes and calls: its trace message,
\* destroy_debug_report_callback, then Box::from_raw of the user callback.
DebugReportDropEvents(o) ==
    <<Event("trace", o, 0, <<"Destroying">>),
      Event("destroy", o, 0, <<>>),
      Event("free", o, 0, <<>>)>>

\* What one step of a call writes and calls when debug reports exist.
InstStepEvents(op) ==
    IF op.op = "destroy" /\ kind[op.obj] = "debug_report"
    THEN DebugReportDropEvents(op.obj)
    ELSE StepEvents(op)

\* the log starts again when a build call is entered
Entered(t) == events' = [events EXCEPT ![t] = <<>>]

CanBuildOnInstance == NewId <= MaxInstObj

\* One caller building devices and debug reports on the instance and dropping
\* its handles in any order; the log is followed.
NextInst ==
    \/ \E dev \in HeldOf(Caller, "device") : CloneInstance(Caller, dev) /\ UNCHANGED events
    \/ \E o \in HeldOf(Caller, "device") \cup HeldOf(Caller, "debug_report") :
          Clone(Caller, Caller, o) /\ UNCHANGED events
    \/ \E o \in Obj : DropHandle(Caller, o) /\ UNCHANGED events
    \/ ~Idle(Caller) /\ Step(Caller)
          /\ Logged(Caller, InstStepEvents(Head(pending[Caller])))
    \/ \E inst \in HeldOf(Caller, "instance"), sel \in SelectorOutcomes :
          \E r \in CreateOutcomes :
             /\ Unused # {}
             /\ CanBuildOnInstance
             /\ BuildDevice(Caller, inst, sel, r)
             /\ Entered(Caller)
    \/ \E inst \in HeldOf(Caller, "instance"), r \in CreateOutcomes :
          /\ Unused # {}
          /\ CanBuildOnInstance
          /\ BuildDebugReport(Caller, inst, r)
          /\ Entered(Caller)

SpecInst == Init /\ [][NextInst]_vars

\* ------------------------------------------- operations owning no resource
LifeVars == <<kind, status, rc, fields, held, pending, result,
              destroyed, released, destroyedBy, destroyedWith, events>>

NativeHandles == 1..MaxHandle

\* Variant: the device is compared as well.
UniqueDeviceHandleEqWithDevice(a, b) == a.handle = b.handle /\ a.device = b.device

\* PartialEq for UniqueDeviceHandle: self.handle() == other.handle()
UniqueDeviceHandleEq(a, b) == a.handle = b.handle

\* PartialEq for UniqueBuffer: self.handle() == other.handle()
UniqueBufferEq(a, b) == a.handle = b.handle

\* #[derive(Eq, PartialEq)] on UniqueCommandPool: every field, in order
UniqueCommandPoolEq(a, b) ==
    /\ a.handle = b.handle
    /\ a.device = b.device
    /\ a.queue_family_index = b.queue_family_index
    /\ a.flags = b.flags

\* #[derive(PartialEq)] on the shared handle compares the Arcs: two clones of
\* one Arc are equal, otherwise the unique resources are compared.
ArcEq(same, inner) == same \/ inner

\* the unique resources two compared handles may wrap
GenericValues ==
    [handle : NativeHandles, device : NativeHandles,
     deps : SeqsUpTo(NativeHandles, MaxEqDeps)]
BufferValues ==
    [handle : NativeHandles, device : NativeHandles, size : {128, 256}]
PoolValues ==
    [handle : NativeHandles, device : NativeHandles,
     queue_family_index : 0..MaxFamily, flags : {"", "TRANSIENT"}]

EqCall(k, a, b, same, ret) ==
    [fn |-> "eq", kind |-> k, a |-> a, b |-> b, clones |-> same, ret |-> ret]

\* a == b for two DeviceHandle values wrapping a and b (`same': b is a clone of a)
CompareGeneric(a, b, same) ==
    /\ same => a = b
    /\ call' = EqCall("generic", a, b, same, ArcEq(same, UniqueDeviceHandleEq(a, b)))
    /\ UNCHANGED LifeVars

\* a == b for two Buffer values
CompareBuffers(a, b, same) ==
    /\ same => a = b
    /\ call' = EqCall("buffer", a, b, same, ArcEq(same, UniqueBufferEq(a, b)))
    /\ UNCHANGED LifeVars

\* a == b for two CommandPool values
ComparePools(a, b, same) ==
    /\ same => a = b
    /\ call' = EqCall("pool", a, b, same, ArcEq(same, UniqueCommandPoolEq(a, b)))
    /\ UNCHANGED LifeVars

\* Variant: the pool is compared as well.
UniqueCommandBuffersEqWithPool(a, b) == a.handles = b.handles /\ a.pool = b.pool

\* PartialEq for UniqueCommandBuffers: self.handles == other.handles
UniqueCommandBuffersEq(a, b) == a.handles = b.handles

\* vk::CommandBufferLevel
Levels == {"PRIMARY", "SECONDARY"}

\* the batches two compared CommandBuffers values may wrap: the native handles of
\* the buffers, the native handle of the pool kept, the level and the device
BatchValues ==
    [handles : SeqsUpTo(NativeHandles, MaxBatch), pool : NativeHandles,
     level : Levels, device : NativeHandles]

\* a == b for two CommandBuffers values
CompareBatches(a, b, same) ==
    /\ same => a = b
    /\ call' = EqCall("cmdbufs", a, b, same, ArcEq(same, UniqueCommandBuffersEq(a, b)))
    /\ UNCHANGED LifeVars

\* a CommandPool argument: its native handle and the native handle of the
\* device it was created on (pool.device())
PoolRefs == [handle : NativeHandles, device : NativeHandles]

\* vk::CommandBufferAllocateInfo
AllocateInfos ==
    [level : Levels, command_buffer_count : 0..MaxBatch, command_pool : NativeHandles]

NoFree == [fn |-> "none", device |-> 0, command_pool |-> 0, handles |-> <<>>]

\* The native call Drop for UniqueCommandBuffers makes for a batch.
FreeCall(batch) ==
    [fn |-> "free_command_buffers", device |-> batch.device,
     command_pool |-> batch.pool.handle, handles |-> batch.handles]

\* UniqueCommandBuffers::allocate: the native allocate call it makes, with
\* outcome r and `handles' the command buffers returned, the batch it builds and
\* the native call the drop of that batch will make.
UniqueCommandBuffersAllocate(info, device, pool, r, handles) ==
    LET batch == [handles |-> handles, pool |-> pool, level |-> info.level,
                  device |-> device]
    IN [ok |-> r = VkSuccess,
        err |-> r,
        native |-> [fn |-> "allocate_command_buffers", device |-> device,
                    command_pool |-> info.command_pool,
                    count |-> info.command_buffer_count],
        kept |-> IF r = VkSuccess THEN <<batch>> ELSE <<>>,
        free |-> IF r = VkSuccess THEN FreeCall(batch) ELSE NoFree]

AllocateCall(via, info, device, pool, ret) ==
    [fn |-> "allocate", via |-> via, info |-> info, device |-> device,
     pool |-> pool, ret |-> ret]

\* the public CommandBuffers::allocate(allocate_info, device, pool)
CommandBuffersAllocate(info, device, pool, r, handles) ==
    /\ Len(handles) = info.command_buffer_count
    /\ call' = AllocateCall("CommandBuffers::allocate", info, device, pool,
                            UniqueCommandBuffersAllocate(info, device, pool, r, handles))
    /\ UNCHANGED LifeVars

\* CommandBuffersBuilder::build(self, pool, device): the allocate info names the
\* pool it was given.
CommandBuffersBuild(level, count, pool, device, r, handles) ==
    LET alloc_info == [level |-> level, command_buffer_count |-> count,
                       command_pool |-> pool.handle]
    IN /\ Len(handles) = count
       /\ call' = AllocateCall("CommandBuffersBuilder::build", alloc_info, device, pool,
                               UniqueCommandBuffersAllocate(alloc_info, device, pool,
                                                            r, handles))
       /\ UNCHANGED LifeVars

\* the queue infos a device may have been created with: one entry per family
QueueInfo == [family_index : 0..MaxFamily, count : 0..MaxQueueCount]
QueueInfos ==
    {s \in SeqsUpTo(QueueInfo, MaxFamily + 1) :
        \A i \in DOMAIN s, j \in DOMAIN s : i # j => s[i].family_index # s[j].family_index}

\* Variant: only the first entry is looked at.
FindFamilyFirstOnly(infos, f) ==
    IF infos # <<>> /\ infos[1].family_index = f THEN 1 ELSE 0

\* queues_info().iter().find(|inf| inf.family_index == family_index): the
\* position of the first entry of family f, 0 if there is none
FindFamily(infos, f) ==
    IF \E i \in DOMAIN infos : infos[i].family_index = f
    THEN CHOOSE i \in DOMAIN infos :
            /\ infos[i].family_index = f
            /\ \A j \in 1..(i - 1) : infos[j].family_index # f
    ELSE 0

\* Variant: the index equal to the count is let through.
QueueIndexOkInclusive(q, count) == q <= count

\* if queue_index < family_info.count
QueueIndexOk(q, count) == q < count

\* Queue::get: the value returned and the number of native calls made
QueueGetResult(infos, f, q) ==
    LET i == FindFamily(infos, f)
    IN IF i # 0
       THEN IF QueueIndexOk(q, infos[i].count)
            THEN [ok |-> TRUE, err |-> "none", nativeCalls |-> 1,
                  queue |-> [family_index |-> f, queue_index |-> q]]
            ELSE [ok |-> FALSE, err |-> "BadQueueIndex", nativeCalls |-> 0,
                  queue |-> <<>>]
       ELSE [ok |-> FALSE, err |-> "BadFamilyIndex", nativeCalls |-> 0, queue |-> <<>>]

QueueGet(infos, f, q) ==
    /\ call' = [fn |-> "Queue::get", infos |-> infos, family_index |-> f,
                queue_index |-> q, ret |-> QueueGetResult(infos, f, q)]
    /\ UNCHANGED LifeVars

\* BindingDescriptorType: two variants carry samplers
SamplerTags == {"Sampler", "CombinedImageSampler"}
PlainTags == {"SampledImage", "StorageImage", "UniformTexelBuffer",
              "StorageTexelBuffer", "UniformBuffer", "StorageBuffer",
              "UniformBufferDynamic", "StorageBufferDynamic", "InputAttachment",
              "AccelerationStructureKhr"}
DescriptorTypes ==
    [tag : SamplerTags, samplers : SeqsUpTo(NativeHandles, MaxNewSamplers)]
    \cup [tag : PlainTags, samplers : {<<>>}]

ToVkDescriptorType(dt) ==
    CASE dt.tag = "Sampler" -> "SAMPLER"
      [] dt.tag = "CombinedImageSampler" -> "COMBINED_IMAGE_SAMPLER"
      [] dt.tag = "SampledImage" -> "SAMPLED_IMAGE"
      [] dt.tag = "StorageImage" -> "STORAGE_IMAGE"
      [] dt.tag = "UniformTexelBuffer" -> "UNIFORM_TEXEL_BUFFER"
      [] dt.tag = "StorageTexelBuffer" -> "STORAGE_TEXEL_BUFFER"
      [] dt.tag = "UniformBuffer" -> "UNIFORM_BUFFER"
      [] dt.tag = "StorageBuffer" -> "STORAGE_BUFFER"
      [] dt.tag = "UniformBufferDynamic" -> "UNIFORM_BUFFER_DYNAMIC"
      [] dt.tag = "StorageBufferDynamic" -> "STORAGE_BUFFER_DYNAMIC"
      [] dt.tag = "InputAttachment" -> "INPUT_ATTACHMENT"
      [] dt.tag = "AccelerationStructureKhr" -> "ACCELERATION_STRUCTURE_KHR"

\* Variant: the combined image sampler is not counted as carrying samplers.
HasSamplersPlainOnly(dt) == dt.tag = "Sampler"

HasSamplers(dt) == dt.tag \in {"Sampler", "CombinedImageSampler"}

GetSamplersVec(dt) ==
    IF dt.tag \in {"Sampler", "CombinedImageSampler"} THEN dt.samplers ELSE <<>>

\* BindingInfo::new: it panics, or returns the binding
BindingInfoResult(index, dt, count) ==
    IF HasSamplers(dt) /\ count > Len(GetSamplersVec(dt))
    THEN [panicked |-> TRUE, binding |-> <<>>]
    ELSE [panicked |-> FALSE,
          binding |-> [samplers |-> GetSamplersVec(dt),
                       raw_samplers |-> GetSamplersVec(dt),
                       descriptor_type |-> ToVkDescriptorType(dt),
                       descriptor_count |-> count,
                       binding |-> index]]

BindingInfoNew(index, dt, count) ==
    /\ call' = [fn |-> "BindingInfo::new", index |-> index, descriptor_type |-> dt,
                descriptors_count |-> count, ret |-> BindingInfoResult(index, dt, count)]
    /\ UNCHANGED LifeVars

LayerNames == {"VK_LAYER_KHRONOS_validation", "VK_LAYER_LUNARG_api_dump"}

\* enumerate_instance_layer_properties().unwrap_or_default()
LayersOrDefault(r, layers) == IF r = VkSuccess THEN layers ELSE <<>>

\* InstanceBuilder::debug_layers: the validation layer if the loader reports
\* it.  The function returns a Vec, never an error.
DebugLayersResult(r, layers) ==
    LET found == LayersOrDefault(r, layers)
    IN [ok |-> TRUE,
        value |-> IF "VK_LAYER_KHRONOS_validation" \in {found[i] : i \in DOMAIN found}
                  THEN <<"VK_LAYER_KHRONOS_validation">> ELSE <<>>]

DebugLayers(r, layers) ==
    /\ call' = [fn |-> "debug_layers", native |-> r, layers |-> layers,
                ret |-> DebugLayersResult(r, layers)]
    /\ UNCHANGED LifeVars

\* ------------------------------------------------------ debug report calls
ReportFlags == {"INFORMATION", "WARNING", "PERFORMANCE_WARNING", "ERROR", "DEBUG"}

\* Variant: WARNING is looked at before ERROR.
MessageLevelFromWarningFirst(flags) ==
    IF "WARNING" \in flags THEN "Warning"
    ELSE IF "ERROR" \in flags THEN "Error"
    ELSE IF "PERFORMANCE_WARNING" \in flags THEN "Perfomance"
    ELSE IF "DEBUG" \in flags THEN "Debug"
    ELSE IF "INFORMATION" \in flags THEN "Information"
    ELSE "Error"

\* impl From<vk::DebugReportFlagsEXT> for MessageLevel
MessageLevelFrom(flags) ==
    IF "ERROR" \in flags THEN "Error"
    ELSE IF "WARNING" \in flags THEN "Warning"
    ELSE IF "PERFORMANCE_WARNING" \in flags THEN "Perfomance"
    ELSE IF "DEBUG" \in flags THEN "Debug"
    ELSE IF "INFORMATION" \in flags THEN "Information"
    ELSE "Error"

MessageLevelFromCall(flags) ==
    /\ call' = [fn |-> "MessageLevel::from", flags |-> flags,
                ret |-> MessageLevelFrom(flags)]
    /\ UNCHANGED LifeVars

\* Bytes of a native message: two characters and a byte that is no UTF-8.
MessageBytes == {"a", "0xFF"}
Messages == SeqsUpTo(MessageBytes, MaxMessage)

\* CStr::to_string_lossy: an invalid byte becomes U+FFFD
ToStringLossy(msg) ==
    [i \in DOMAIN msg |-> IF msg[i] = "0xFF" THEN "U+FFFD" ELSE msg[i]]

\* p_user_data: null, or the callback leaked by DebugReportBuilder::build
UserData == {"null", "callback"}

\* Variant: a report of level Error makes the native call abort.
DebugReportCallbackResultAbortOnError(flags, msg, user) ==
    [invoked |-> IF user = "null" THEN <<>>
                 ELSE <<[text |-> ToStringLossy(msg), level |-> MessageLevelFrom(flags)]>>,
     stderr |-> IF user = "null"
                THEN <<"Can't dereference vk debug report callback pointer">> ELSE <<>>,
     ret |-> IF MessageLevelFrom(flags) = "Error" THEN "TRUE" ELSE "FALSE"]

\* debug_report_callback: the calls of the user callback it makes, what it
\* writes to stderr and what it returns
DebugReportCallbackResult(flags, msg, user) ==
    [invoked |-> IF user = "null" THEN <<>>
                 ELSE <<[text |-> ToStringLossy(msg), level |-> MessageLevelFrom(flags)]>>,
     stderr |-> IF user = "null"
                THEN <<"Can't dereference vk debug report callback pointer">> ELSE <<>>,
     ret |-> "FALSE"]

DebugReportCallback(flags, msg, user) ==
    /\ call' = [fn |-> "debug_report_callback", flags |-> flags, message |-> msg,
                user_data |-> user, out |-> DebugReportCallbackResult(flags, msg, user)]
    /\ UNCHANGED LifeVars

\* ------------------------------------------------------------- raw names
\* Elements of a raw name: the terminator and two characters.
NameBytes == {0, 65, 66}
RawNameArrays == SeqsUpTo(NameBytes, MaxName)

\* Variant: a terminator is added after the last element unless it is one.
SetLastZeroKeepLast(raw) ==
    IF raw[Len(raw)] = 0 THEN raw ELSE Append(raw, 0)

\* *last = 0
SetLastZero(raw) == [raw EXCEPT ![Len(raw)] = 0]

\* CStr::from_ptr(p).to_owned(): the bytes from position i up to the first 0
RECURSIVE CStrFromPtr(_, _)
CStrFromPtr(mem, i) ==
    IF mem[i] = 0 THEN <<>> ELSE <<mem[i]>> \o CStrFromPtr(mem, i + 1)

\* raw_name_to_c_string: the slice as the call leaves it and the string
RawNameResult(raw) ==
    IF raw = <<>>
    THEN [raw |-> raw, ret |-> <<>>]
    ELSE [raw |-> SetLastZero(raw), ret |-> CStrFromPtr(SetLastZero(raw), 1)]

RawNameToCString(raw) ==
    /\ call' = [fn |-> "raw_name_to_c_string", raw |-> raw, out |-> RawNameResult(raw)]
    /\ UNCHANGED LifeVars

\* ------------------------------------------------ QueueCreateInfosBuilder
QueueInfoLists == SeqsUpTo(QueueInfo, MaxQInfos)

\* QueueCreateInfosBuilder::new
QueueCreateInfosNew(infos) ==
    [prioreties |-> [addr |-> "Vec::default", data |-> <<>>],
     queue_infos |-> [i \in DOMAIN infos |->
                        [queue_count |-> infos[i].count,
                         queue_family_index |-> infos[i].family_index,
                         p_queue_priorities |-> "null"]]]

\* Variant: the queue count of the first queue info.
MaxQueueCountOfFirst(qis) == IF qis = <<>> THEN 0 ELSE qis[1].queue_count

\* .iter().map(|info| info.queue_count).max().unwrap_or_default()
MaxQueueCountOf(qis) ==
    IF qis = <<>> THEN 0
    ELSE CHOOSE m \in {qis[i].queue_count : i \in DOMAIN qis} :
            \A i \in DOMAIN qis : qis[i].queue_count <= m

\* QueueCreateInfosBuilder::build: the builder as build leaves it
QueueCreateInfosBuild(b) ==
    LET prio == [addr |-> "vec![1f32; max_queue_count]",
                 data |-> [i \in 1..MaxQueueCountOf(b.queue_infos) |-> "1.0"]]
    IN [prioreties |-> prio,
        queue_infos |-> [i \in DOMAIN b.queue_infos |->
                           [b.queue_infos[i] EXCEPT !.p_queue_priorities = prio.addr]]]

QueueCreateInfosBuilderBuild(infos) ==
    /\ call' = [fn |-> "QueueCreateInfosBuilder::build", infos |-> infos,
                out |-> QueueCreateInfosBuild(QueueCreateInfosNew(infos))]
    /\ UNCHANGED LifeVars

\* --------------------------------------------------- physical device selector
QueueFlagBits == {"GRAPHICS", "COMPUTE"}

\* vk::QueueFamilyProperties, the fields the selector reads; of queue_count
\* it reads only whether it is 0
FamilyProps == [queue_flags : SUBSET QueueFlagBits, queue_count : {0, 1}]

\* get_physical_device_queue_family_properties(pd)
DeviceFamilies == SeqsUpTo(FamilyProps, MaxPFamilies)

Running == [variant |-> "running"]

\* Variant: a family without queues suits too.
SuitFamilyAnyQueueCount(props, flags) ==
    LET suit == {i \in DOMAIN props : (props[i].queue_flags \cap flags) = flags}
    IN IF suit = {} THEN 0 ELSE CHOOSE i \in suit : \A j \in suit : i <= j

\* .iter().enumerate().find(|(_, props)| (props.queue_flags & flags == flags)
\* && props.queue_count > 0): the position of the family found, 0 if None
SuitFamily(props, flags) ==
    LET suit == {i \in DOMAIN props : /\ (props[i].queue_flags \cap flags) = flags
                                      /\ props[i].queue_count > 0}
    IN IF suit = {} THEN 0 ELSE CHOOSE i \in suit : \A j \in suit : i <= j

\* Ok(PhysicalDeviceInfo {pdevice, queues_info: vec![QueuesInfo {family_index, count: 1}]})
SelectedDevice(pd, index) ==
    [variant |-> "Ok", pdevice |-> pd,
     queues_info |-> <<[family_index |-> index, count |-> 1]>>]

\* first_with_flags up to the first loop iteration: enumerate_physical_devices
\* returned r and n physical devices, named 1..n in enumeration order
FirstWithFlagsEnter(flags, r, n) ==
    /\ call' = [fn |-> "first_with_flags", flags |-> flags, native |-> r,
                pdevices |-> IF r = VkSuccess THEN n ELSE 0,
                at |-> 1, props |-> <<>>,
                ret |-> IF r # VkSuccess
                        THEN [variant |-> "PhysicalDeviceError::VkError", err |-> r]
                        ELSE IF n = 0
                        THEN [variant |-> "PhysicalDeviceError::NotFound"]
                        ELSE Running]
    /\ UNCHANGED LifeVars

\* one iteration of the loop over the physical devices, for the device
\* call.at whose queue families are props, and the return after the last one
FirstWithFlagsVisit(props) ==
    /\ call.fn = "first_with_flags"
    /\ call.ret = Running
    /\ LET found == SuitFamily(props, call.flags)
       IN call' = [call EXCEPT
                     !.props = props,
                     !.at = IF found = 0 /\ call.at < call.pdevices THEN @ + 1 ELSE @,
                     !.ret = IF found # 0 THEN SelectedDevice(call.at, found - 1)
                             ELSE IF call.at < call.pdevices THEN Running
                             ELSE [variant |-> "PhysicalDeviceError::NotFound"]]
    /\ UNCHANGED LifeVars

\* Each behaviour makes one call; the calls do not depend on one another.
NextCalls ==
    \/ /\ call = NoCall
       /\ \E a \in GenericValues, b \in GenericValues, same \in BOOLEAN :
             CompareGeneric(a, b, same)
    \/ /\ call = NoCall
       /\ \E a \in BufferValues, b \in BufferValues, same \in BOOLEAN :
             CompareBuffers(a, b, same)
    \/ /\ call = NoCall
       /\ \E a \in PoolValues, b \in PoolValues, same \in BOOLEAN :
             ComparePools(a, b, same)
    \/ /\ call = NoCall
       /\ \E a \in BatchValues, b \in BatchValues, same \in BOOLEAN :
             CompareBatches(a, b, same)
    \/ /\ call = NoCall
       /\ \E info \in AllocateInfos, device \in NativeHandles, pool \in PoolRefs :
             \E r \in CreateOutcomes, handles \in SeqsUpTo(NativeHandles, MaxBatch) :
                CommandBuffersAllocate(info, device, pool, r, handles)
    \/ /\ call = NoCall
       /\ \E level \in Levels, count \in 0..MaxBatch, pool \in PoolRefs :
             \E device \in NativeHandles, r \in CreateOutcomes :
                \E handles \in SeqsUpTo(NativeHandles, MaxBatch) :
                   CommandBuffersBuild(level, count, pool, device, r, handles)
    \/ /\ call = NoCall
       /\ \E infos \in QueueInfos, f \in 0..(MaxFamily + 1), q \in 0..(MaxQueueCount + 1) :
             QueueGet(infos, f, q)
    \/ /\ call = NoCall
       /\ \E index \in 0..1, dt \in DescriptorTypes, count \in 0..(MaxNewSamplers + 1) :
             BindingInfoNew(index, dt, count)
    \/ /\ call = NoCall
       /\ \E r \in CreateOutcomes, layers \in SeqsUpTo(LayerNames, MaxLayers) :
             DebugLayers(r, layers)
    \/ /\ call = NoCall
       /\ \E flags \in SUBSET ReportFlags : MessageLevelFromCall(flags)
    \/ /\ call = NoCall
       /\ \E flags \in SUBSET ReportFlags, msg \in Messages, user \in UserData :
             DebugReportCallback(flags, msg, user)
    \/ /\ call = NoCall
       /\ \E raw \in RawNameArrays : RawNameToCString(raw)
    \/ /\ call = NoCall
       /\ \E infos \in QueueInfoLists : QueueCreateInfosBuilderBuild(infos)
    \/ /\ call = NoCall
       /\ \E flags \in SUBSET QueueFlagBits, r \in CreateOutcomes, n \in 0..MaxPDevices :
             FirstWithFlagsEnter(flags, r, n)
    \/ /\ call.fn = "first_with_flags"
       /\ call.ret = Running
       /\ \E props \in DeviceFamilies : FirstWithFlagsVisit(props)

SpecCalls == Init /\ [][NextCalls]_vars

\* ------------------------------------------------------------- properties
Range(s) == {s[i] : i \in DOMAIN s}

\* o was created by a successful native call
Created(o) == status[o] \in {"live", "dropping"}

\* handles of o owned by the threads
HeldCount(o) == SumOver(Threads, [t \in Threads |-> held[t][o]])

\* handles of o owned by created resources and not yet released by them
FieldRefs(o) ==
    Cardinality(UNION {
        {<<p, i>> : i \in {j \in (released[p] + 1)..Len(fields[p]) : fields[p][j] = o}}
        : p \in {q \in Obj : Created(q)}})

\* handles of o owned by calls in progress (arguments, builders)
ArgRefs(o) ==
    Cardinality(UNION {
        {<<t, i>> : i \in {j \in DOMAIN pending[t] : pending[t][j] = ReleaseOp(o, 0)}}
        : t \in Threads})

Owners(o) == HeldCount(o) + FieldRefs(o) + ArgRefs(o)

\* some thread owns a handle of o; some created resource still owns one
HeldBySome(o) == \E t \in Threads : held[t][o] > 0
KeptBySome(o) ==
    \E p \in Obj : /\ Created(p)
                   /\ \E i \in (released[p] + 1)..Len(fields[p]) : fields[p][i] = o
InSomeCall(o) == \E t \in Threads : ReleaseOp(o, 0) \in Range(pending[t])

\* nobody owns a handle of o
NoOwners(o) == ~HeldBySome(o) /\ ~KeptBySome(o) /\ ~InSomeCall(o)

\* the drop of unique resource o has begun and not finished
InDrop(o) == \E t \in Threads : \E i \in DOMAIN pending[t] : pending[t][i].of = o

DestroyPending(o) == \E t \in Threads : DestroyOp(o) \in Range(pending[t])

AllIdle == \A t \in Threads : Idle(t)

\* the dependency list of generic resource b (fields: device, then _dependencies)
Deps(b) == Tail(fields[b])

FailedGeneric(t) == ~result[t].ok /\ result[t].variant = "VkResult"

\* C1: a generic shared handle whose clones have all been dropped, however many
\* there were, has had its native destroy called exactly once; it is never
\* called twice.
C1_DestroyedExactlyOnce ==
    \A o \in Obj : (kind[o] = "generic" /\ Created(o)) =>
        /\ destroyed[o] <= 1
        /\ (NoOwners(o) /\ ~InDrop(o)) => destroyed[o] = 1

C1_Witness ==
    \E o \in Obj : /\ kind[o] = "generic" /\ Created(o)
                   /\ NoOwners(o) /\ ~InDrop(o) /\ destroyed[o] = 1

\* C2: while a clone of a resource is alive, in a caller's hands, in a call or
\* in the dependency list of another resource, its native destroy has neither
\* been called nor been scheduled: it is scheduled by the release that takes
\* the count to zero.
C2_NoDestroyWhileShared ==
    \A o \in Obj : (destroyed[o] >= 1 \/ DestroyPending(o)) =>
        (NoOwners(o) /\ rc[o] = 0)

C2_Witness ==
    \E o \in Obj : /\ kind[o] = "generic" /\ status[o] = "live"
                   /\ ~HeldBySome(o) /\ KeptBySome(o) /\ destroyed[o] = 0

\* C3: if generic resource b was constructed with a in its dependency list,
\* a's native destroy is never called before b's, and never while b is alive.
C3_DependencyOutlivesDependent ==
    \A b \in Obj : (kind[b] = "generic" /\ Created(b)) =>
        \A a \in Range(Deps(b)) :
            /\ destroyed[a] >= 1 => destroyed[b] >= 1
            /\ status[b] = "live" => (destroyed[a] = 0 /\ ~DestroyPending(a))

C3_Witness ==
    \E b \in Obj : /\ kind[b] = "generic" /\ Created(b)
                   /\ \E a \in Range(Deps(b)) : destroyed[a] = 1 /\ destroyed[b] = 1

\* C4: in the drop of a generic unique resource the native destroy call is made
\* before any of its fields is released, so a dependency that the resource was
\* the last to hold is destroyed after the resource itself.
C4_DestroyBeforeRelease ==
    \A b \in Obj : (kind[b] = "generic" /\ Created(b)) =>
        /\ released[b] > 0 => destroyed[b] >= 1
        /\ \A a \in Range(Deps(b)) : DestroyPending(a) => destroyed[b] >= 1

C4_Witness ==
    \E t \in Threads, b \in Obj :
        /\ kind[b] = "generic" /\ destroyed[b] = 1
        /\ pending[t] # <<>>
        /\ \E a \in Range(Deps(b)) : Head(pending[t]) = DestroyOp(a)

\* C5: a generic construct whose native create call failed returns that call's
\* error code; the attempt leaves no resource and no handle, and its native
\* destroy is never called.
C5_FailedConstruct ==
    /\ \A t \in Threads : FailedGeneric(t) =>
          /\ result[t].err = result[t].native
          /\ result[t].err \in ErrCodes
          /\ status[result[t].obj] = "failed"
    /\ \A o \in Obj : (kind[o] = "generic" /\ status[o] = "failed") =>
          /\ destroyed[o] = 0 /\ ~DestroyPending(o) /\ ~InDrop(o)
          /\ rc[o] = 0 /\ NoOwners(o) /\ fields[o] = <<>>

C5_Witness ==
    \E t \in Threads : /\ FailedGeneric(t) /\ Idle(t)
                       /\ result[t].native = "ERROR_OUT_OF_DEVICE_MEMORY"

\* C6: when a failed generic construct has returned, every handle that was
\* moved into it (device, dependencies) has been released: the count of each
\* is the number of handles still owned by someone, and the attempt owns none.
C6_FailedConstructReleasesArgs ==
    \A t \in Threads : (FailedGeneric(t) /\ Idle(t)) =>
        /\ \A a \in Range(result[t].passed) : rc[a] = Owners(a)
        /\ fields[result[t].obj] = <<>>

C6_Witness ==
    \E t \in Threads : /\ FailedGeneric(t) /\ Idle(t)
                       /\ Len(result[t].passed) >= 2

\* C7: with several threads cloning and dropping handles of one generic
\* resource, its native destroy is called at most once, never while a thread
\* owns a clone, and exactly once when every clone is gone and every drop has
\* returned.
C7_RaceSafe ==
    \A o \in Obj : (kind[o] = "generic" /\ Created(o)) =>
        /\ destroyed[o] <= 1
        /\ (destroyed[o] >= 1 \/ DestroyPending(o)) => \A t \in Threads : held[t][o] = 0
        /\ (AllIdle /\ ~KeptBySome(o) /\ ~HeldBySome(o))
              => destroyed[o] = 1

\* thread 1 built the resource and thread 2 made the drop that destroyed it
C7_Witness ==
    \E o \in Obj : /\ kind[o] = "generic" /\ destroyed[o] = 1 /\ destroyedBy[o] = 2
                   /\ result[1].ok /\ result[1].obj = o

\* C8: when no handle is owned by anyone any more, every native handle that was
\* created has been destroyed exactly once.
C8_NothingLeaked ==
    (AllIdle /\ \A t \in Threads, o \in Obj : held[t][o] = 0) =>
        \A o \in Obj : Created(o) => destroyed[o] = 1

\* C9: the drop of the last clone of a descriptor-set layout calls the native
\* destroy of the layout exactly once, before the layout's samplers are released.
C9_LayoutDestroyedOnce ==
    \A l \in Obj : (kind[l] = "dsl" /\ Created(l)) =>
        /\ released[l] > 0 => destroyed[l] = 1
        /\ (status[l] = "dropping" /\ ~InDrop(l)) => destroyed[l] = 1

\* the bindings' samplers of the layout thread t built last, while it is alive
LayoutBuiltFrom(t) ==
    IF result[t].ok /\ result[t].obj # 0 /\ kind[result[t].obj] = "dsl"
       /\ status[result[t].obj] = "live" /\ Idle(t)
    THEN Range(Tail(result[t].passed)) ELSE {}

\* C10: a sampler referenced by the bindings of a layout is not destroyed while
\* a caller owns a handle of it, nor while the layout keeps it; its native
\* destroy is called exactly once, by the release of its last handle.
C10_SamplerSharedWithLayout ==
    \A s \in Obj : (kind[s] = "sampler" /\ Created(s)) =>
        /\ destroyed[s] <= 1
        /\ HeldBySome(s) => (destroyed[s] = 0 /\ ~DestroyPending(s))
        /\ KeptBySome(s) => (destroyed[s] = 0 /\ ~DestroyPending(s))
        /\ (\E t \in Threads : s \in LayoutBuiltFrom(t))
              => (destroyed[s] = 0 /\ ~DestroyPending(s))
        /\ (NoOwners(s) /\ ~InDrop(s)) => destroyed[s] = 1

C10_Witness ==
    \E l \in Obj, s \in Obj :
        /\ kind[l] = "dsl" /\ status[l] = "dropping"
        /\ kind[s] = "sampler" /\ s \in Range(Tail(fields[l]))
        /\ destroyedBy[s] # 0 /\ destroyed[s] = 1

\* --------------------------------------------- properties of every builder
\* the pool kept by batch b; the device kept by resource o
PoolOf(b) == CHOOSE p \in Range(fields[b]) : kind[p] = "pool"
DeviceOf(o) == CHOOSE d \in Range(fields[o]) : kind[d] = "device"

\* C11: the command buffers of a batch are freed before the pool they were
\* allocated from is destroyed; until they are freed the destroy of the pool is
\* not even scheduled, whether or not the caller still owns a handle of the pool.
C11_PoolOutlivesBatch ==
    \A b \in Obj : (kind[b] = "cmdbufs" /\ Created(b)) =>
        /\ destroyed[PoolOf(b)] >= 1 => destroyed[b] >= 1
        /\ destroyed[b] = 0 => ~DestroyPending(PoolOf(b))
        /\ destroyed[b] <= 1 /\ destroyed[PoolOf(b)] <= 1

\* the batch was the last owner of its pool: the pool is destroyed inside the
\* drop of the batch, after the free
C11_Witness ==
    \E b \in Obj : /\ kind[b] = "cmdbufs" /\ InDrop(b)
                   /\ destroyed[b] = 1 /\ destroyed[PoolOf(b)] = 1

DeviceKinds == {"memory", "buffer", "pool", "cmdbufs", "sampler", "generic"}

\* C12: the device is destroyed only after every buffer, memory, command pool,
\* batch, sampler and generic resource created on it; while such a resource is
\* alive its device is alive, and until the resource is destroyed the destroy
\* of the device is neither made nor scheduled.
C12_DeviceOutlivesResources ==
    \A o \in Obj : (kind[o] \in DeviceKinds /\ Created(o)) =>
        /\ destroyed[DeviceOf(o)] >= 1 => destroyed[o] >= 1
        /\ destroyed[o] = 0 => ~DestroyPending(DeviceOf(o))
        /\ status[o] = "live" => status[DeviceOf(o)] = "live"

\* the caller gave up the device first; a batch, then its pool, then the
\* device were destroyed
C12_Witness ==
    \E b \in Obj : /\ kind[b] = "cmdbufs" /\ destroyed[b] = 1
                   /\ destroyed[PoolOf(b)] = 1
                   /\ destroyed[DeviceOf(b)] = 1 /\ AllIdle

\* the error variant each builder returns
ErrorOf(k) ==
    CASE k = "memory" -> "MemAllocError::VkError"
      [] k = "buffer" -> "CreateBufferError::VkError"
      [] k = "pool" -> "CreateCommandPoolError::VkError"
      [] k = "cmdbufs" -> "AllocateCommandBuffersError::VkError"
      [] k = "sampler" -> "CreateSamplerError::VkError"
      [] k = "dsl" -> "CreateDescriptorSetLayoutError::VkError"
      [] k = "debug_report" -> "CreateDebugReportError::VkError"

BuilderKinds == {"memory", "buffer", "pool", "cmdbufs", "sampler", "dsl", "debug_report"}

\* C19: a build whose native create call failed with code e returns the error
\* variant of its kind carrying e; the attempt leaves no resource and no handle
\* and no native destroy is made or scheduled for it.
C19_BuilderFailure ==
    /\ \A t \in Threads :
          (~result[t].ok /\ kind[result[t].obj] \in BuilderKinds) =>
              /\ result[t].variant = ErrorOf(kind[result[t].obj])
              /\ result[t].err = result[t].native
              /\ result[t].err \in ErrCodes
              /\ status[result[t].obj] = "failed"
    /\ \A o \in Obj : (kind[o] \in BuilderKinds /\ status[o] = "failed") =>
          /\ destroyed[o] = 0 /\ ~DestroyPending(o) /\ ~InDrop(o)
          /\ rc[o] = 0 /\ NoOwners(o) /\ fields[o] = <<>>

C19_Witness ==
    \E t \in Threads : /\ ~result[t].ok /\ Idle(t)
                       /\ kind[result[t].obj] = "cmdbufs"
                       /\ result[t].err = "ERROR_OUT_OF_DEVICE_MEMORY"

IsEq(k) == call.fn = "eq" /\ call.kind = k

\* C13: two generic handles, and two buffers, compare equal exactly when their
\* native handle values are equal, whatever their devices and dependency
\* lists; a handle and its clone compare equal.
C13_EqualByNativeHandle ==
    (IsEq("generic") \/ IsEq("buffer")) =>
        /\ call.ret <=> (call.a.handle = call.b.handle)
        /\ call.clones => call.ret

\* two resources made independently, on different devices and with different
\* dependency lists, whose native handle values match
C13_Witness ==
    /\ IsEq("generic") /\ ~call.clones /\ call.ret
    /\ call.a.device # call.b.device /\ call.a.deps # call.b.deps

\* C14: two command pools compare equal exactly when their native handle
\* values are equal, regardless of queue family index and flags.
C14_PoolEqualByNativeHandle ==
    IsEq("pool") => (call.ret <=> (call.a.handle = call.b.handle))

\* the entry of family f in the queue infos of the call, if there is one
HasFamily == \E i \in DOMAIN call.infos : call.infos[i].family_index = call.family_index
FamilyCount ==
    call.infos[CHOOSE i \in DOMAIN call.infos :
                  call.infos[i].family_index = call.family_index].count

Supplied == call.descriptor_type.samplers

\* C17: BindingInfo::new panics exactly when the descriptor type is Sampler or
\* CombinedImageSampler and descriptors_count exceeds the number of samplers
\* given; otherwise the binding has the samplers given (none for the other
\* types), and the count, index and type of the arguments.
C17_BindingInfoNew ==
    call.fn = "BindingInfo::new" =>
        /\ call.ret.panicked <=>
              /\ call.descriptor_type.tag \in {"Sampler", "CombinedImageSampler"}
              /\ call.descriptors_count > Len(Supplied)
        /\ ~call.ret.panicked =>
              /\ call.ret.binding.samplers = Supplied
              /\ call.descriptor_type.tag \notin {"Sampler", "CombinedImageSampler"}
                    => call.ret.binding.samplers = <<>>
              /\ call.ret.binding.descriptor_count = call.descriptors_count
              /\ call.ret.binding.binding = call.index
              /\ call.ret.binding.descriptor_type = ToVkDescriptorType(call.descriptor_type)

\* one descriptor more than the samplers of a combined image sampler
C17_Witness ==
    /\ call.fn = "BindingInfo::new" /\ call.ret.panicked
    /\ call.descriptor_type.tag = "CombinedImageSampler"
    /\ call.descriptors_count = Len(Supplied) + 1

\* C18: an operation whose native call failed returns an error.
C18_NoErrorSwallowed ==
    /\ (call.fn = "debug_layers" /\ call.native \in ErrCodes) => ~call.ret.ok
    /\ \A t \in Threads : result[t].native \in ErrCodes => ~result[t].ok

\* -------------------------------------------------- order of events (SpecLog)
EventsOf(t, ev, o) == {i \in DOMAIN events[t] : events[t][i].ev = ev /\ events[t][i].obj = o}
TracesOf(t, word, o) == {i \in EventsOf(t, "trace", o) : events[t][i].text[1] = word}

\* C21: UniqueDeviceHandle::new writes one trace message naming the kind and
\* the descriptor right before the native create call; a failed create is
\* followed by one warning that repeats them with the error, which is the error
\* returned, and a successful one by no warning.  A destruction writes one trace
\* message right before the native destroy call, and the fields of the resource
\* are released after that call.
C21_EventOrder ==
    \A t \in Threads :
       LET e == events[t]
       IN \A i \in DOMAIN e :
             /\ e[i].ev = "create" =>
                   /\ i > 1
                   /\ e[i - 1].ev = "trace" /\ e[i - 1].obj = e[i].obj
                   /\ Len(e[i - 1].text) = 3 /\ e[i - 1].text[1] = "Creating"
                   /\ e[i - 1].text[2] \in RawNames
                   /\ Cardinality(TracesOf(t, "Creating", e[i].obj)) = 1
                   /\ result[t].obj = e[i].obj /\ result[t].native = e[i].text[1]
             /\ (e[i].ev = "create" /\ e[i].text[1] # VkSuccess) =>
                   /\ i < Len(e)
                   /\ e[i + 1].ev = "warn" /\ e[i + 1].obj = e[i].obj
                   /\ e[i + 1].text = e[i - 1].text \o <<"failed", e[i].text[1]>>
                   /\ ~result[t].ok /\ result[t].err = e[i].text[1]
             /\ e[i].ev = "warn" =>
                   /\ i > 1
                   /\ e[i - 1].ev = "create" /\ e[i - 1].obj = e[i].obj
                   /\ e[i - 1].text[1] \in ErrCodes
                   /\ Cardinality(EventsOf(t, "warn", e[i].obj)) = 1
             /\ e[i].ev = "destroy" =>
                   /\ i > 1
                   /\ e[i - 1].ev = "trace" /\ e[i - 1].obj = e[i].obj
                   /\ e[i - 1].text = <<"Destroying">>
                   /\ Cardinality(TracesOf(t, "Destroying", e[i].obj)) = 1
             /\ (e[i].ev = "release" /\ e[i].of # 0) =>
                   \E j \in 1..(i - 1) : e[j].ev = "destroy" /\ e[j].obj = e[i].of

\* A failed construct wrote its warning and released the last handle of a
\* resource it was given, which was destroyed and then released what it owned.
C21_Witness ==
    \E i, j, k \in DOMAIN events[Caller] :
       /\ i < j /\ j < k
       /\ events[Caller][i].ev = "warn"
       /\ events[Caller][j].ev = "destroy" /\ kind[events[Caller][j].obj] = "generic"
       /\ events[Caller][k].ev = "release" /\ events[Caller][k].of = events[Caller][j].obj

\* ------------------------------------------- destruction and threads (SpecConc)
\* threads that have, or have made, a step of the destruction of o
DestroyersOf(o) ==
    {t \in Threads : \/ destroyedBy[o] = t
                     \/ \E i \in DOMAIN pending[t] :
                           pending[t][i].of = o \/ pending[t][i] = DestroyOp(o)}

\* thread t alone acted in this step
ActedAlone(t) ==
    /\ held'[t] # held[t] \/ pending'[t] # pending[t]
    /\ \A u \in Threads \ {t} : pending'[u] = pending[u]

\* C22: the thread whose release takes the count of a resource to zero, by
\* dropping a handle or in the cascade of another drop, has the native destroy
\* of that resource as the next step of the call it is in, and no other thread
\* is given any of it: a resource whose count is zero and whose native destroy
\* was not made is on the stack of a drop that has not returned, and every step
\* of one destruction is made by one thread.
C22_DropIsSynchronous ==
    [][/\ \A o \in Obj : (status[o] = "live" /\ status'[o] = "dropping") =>
              \E t \in Threads : /\ ActedAlone(t)
                                 /\ pending'[t] # <<>>
                                 /\ Head(pending'[t]) = DestroyOp(o)
       /\ \A o \in Obj : status'[o] = "dropping" =>
              /\ destroyed'[o] = 0 => DestroyPending(o)'
              /\ Cardinality(DestroyersOf(o)') <= 1]_vars

\* thread 2 made the drop that destroyed b and, in its cascade, b's dependency
\* a, and that drop has returned
C22_Witness ==
    \E b \in Obj : /\ kind[b] = "generic" /\ destroyedBy[b] = 2
                   /\ \E a \in Range(Deps(b)) : kind[a] = "generic" /\ destroyedBy[a] = 2
                   /\ Idle(2) /\ result[1].obj = b

\* C27: when generic resource b depends on a and their last caller-held handles
\* are dropped by different threads, whichever drop comes first, the native
\* destroy of each is called at most once, a's count does not reach zero and its
\* native destroy is not called before b's native destroy was made, and both
\* were made once nobody owns them and every drop has returned.
C27_DependentDestroyedFirst ==
    \A b \in Obj : (kind[b] = "generic" /\ Created(b)) =>
        \A a \in Range(Deps(b)) :
            /\ destroyed[a] <= 1 /\ destroyed[b] <= 1
            /\ (destroyed[a] >= 1 \/ DestroyPending(a)) => destroyed[b] = 1
            /\ (AllIdle /\ NoOwners(b)) => destroyed[b] = 1
            /\ (AllIdle /\ NoOwners(a)) => destroyed[a] = 1

\* thread 2 is in the drop of b's last handle, b's native destroy not yet made,
\* while thread 1 owns the last caller-held handle of b's dependency a
C27_Witness ==
    \E b \in Obj :
       /\ kind[b] = "generic" /\ pending[2] # <<>> /\ Head(pending[2]) = DestroyOp(b)
       /\ \E a \in Range(Deps(b)) :
             /\ kind[a] = "generic" /\ held[1][a] = 1 /\ held[2][a] = 0 /\ rc[a] = 2
             /\ Idle(1)

\* ------------------------------------------------------ what a resource keeps
\* C23: from the construction of a generic resource until its native destroy
\* call, no step (clone, drop of a handle, construction of a resource that
\* depends on it or not, destruction of another resource) changes what it is,
\* the device it keeps, or its dependency list, and none of its fields is
\* released.
C23_ResourceFrame ==
    [][\A o \in Obj : (kind[o] = "generic" /\ Created(o) /\ destroyed[o] = 0) =>
          /\ kind'[o] = kind[o]
          /\ fields'[o] = fields[o]
          /\ DestroyArgs(o)' = DestroyArgs(o)
          /\ released'[o] = 0]_vars

\* a was cloned, was made a dependency of b and outlived b's destruction
C23_Witness ==
    \E a \in Obj :
       /\ kind[a] = "generic" /\ status[a] = "live" /\ held[Caller][a] = 1
       /\ \E b \in Obj : /\ kind[b] = "generic" /\ Created(b) /\ a \in Range(Deps(b))
                         /\ destroyed[b] = 1 /\ released[b] = Len(fields[b])

\* ------------------------------------------- samplers of a layout (Spec)
\* thread t's last call was DescriptorSetLayoutBuilder::build and has returned
LayoutBuildReturned(t) ==
    /\ result[t].obj # 0 /\ kind[result[t].obj] = "dsl"
    /\ Idle(t)

\* samplers() of layout l
Samplers(l) == Tail(fields[l])

C25_FailedLayoutReleasesSamplers ==
    \A t \in Threads :
       (LayoutBuildReturned(t) /\ ~result[t].ok) =>
          /\ result[t].native \in ErrCodes
          /\ \A s \in Range(Tail(result[t].passed)) :
                /\ ~InSomeCall(s)
                /\ rc[s] = HeldCount(s) + FieldRefs(s)
                /\ rc[s] = 0 => destroyed[s] = 1

\* a failed build was given a sampler of which the caller kept one handle
C25_Witness ==
    /\ LayoutBuildReturned(Caller) /\ ~result[Caller].ok
    /\ \E s \in Range(Tail(result[Caller].passed)) :
          rc[s] = 1 /\ held[Caller][s] = 1

\* ------------------------------------------------ batches compared (SpecCalls)
\* C26: two batches of command buffers compare equal exactly when they have as
\* many native command-buffer handles and the handles at each position are
\* equal; pool, level and device are not compared, and a batch equals its clone.
C26_BatchesEqualByHandles ==
    IsEq("cmdbufs") =>
        /\ call.ret <=>
              /\ Len(call.a.handles) = Len(call.b.handles)
              /\ \A i \in DOMAIN call.a.handles : call.a.handles[i] = call.b.handles[i]
        /\ call.clones => call.ret

\* two empty batches allocated from different pools compared equal
C26_Witness ==
    /\ IsEq("cmdbufs") /\ ~call.clones /\ call.ret
    /\ call.a.handles = <<>> /\ call.b.handles = <<>>
    /\ call.a.pool # call.b.pool

\* ---------------------------------------- pool and device of a batch (SpecCalls)
IsAllocate == call.fn = "allocate"

\* C28: however a batch was created, the pool its native allocate call named is
\* the pool its native free call will name.
C28_FreedThroughAllocatingPool ==
    (IsAllocate /\ call.ret.ok) =>
        call.ret.free.command_pool = call.ret.native.command_pool

\* C29: CommandBuffersBuilder::build makes the native allocate call, and the
\* batch it returns will make the native free call, on the device the pool
\* was created on.
C29_AllocatedOnPoolDevice ==
    (IsAllocate /\ call.via = "CommandBuffersBuilder::build") =>
        /\ call.ret.native.device = call.pool.device
        /\ call.ret.ok => call.ret.free.device = call.pool.device

\* ------------------------------------------- callback of a debug report (SpecDev)
\* C30: the user callback boxed by DebugReportBuilder::build is never freed
\* twice nor while the debug report is alive; it has been freed when the drop of
\* the last clone has made its native destroy call, and when a build whose
\* native create call failed has returned.
C30_CallbackFreedOnce ==
    \A o \in Obj : CallbackAllocs(o) = 1 =>
        /\ CallbackFrees(o) <= 1
        /\ status[o] = "live" => CallbackFrees(o) = 0
        /\ (status[o] = "dropping" /\ ~DestroyPending(o)) => CallbackFrees(o) = 1
        /\ (status[o] = "failed" /\ AllIdle) => CallbackFrees(o) = 1

\* ------------------------------------------ instance, devices, debug reports
\* C31: in the drop of the last clone of a debug report the user callback is
\* freed right after the native callback was unregistered, once, and never
\* while a clone of the debug report is owned or the native callback is still
\* registered.
C31_CallbackFreedAfterUnregister ==
    /\ \A t \in Threads :
          LET e == events[t]
          IN \A i \in DOMAIN e :
                e[i].ev = "free" =>
                   /\ i > 1
                   /\ e[i - 1].ev = "destroy" /\ e[i - 1].obj = e[i].obj
                   /\ kind[e[i].obj] = "debug_report"
                   /\ Cardinality(EventsOf(t, "free", e[i].obj)) = 1
                   /\ CallbackFrees(e[i].obj) = 1
                   /\ ~HeldBySome(e[i].obj) /\ rc[e[i].obj] = 0
    /\ \A o \in Obj : (kind[o] = "debug_report" /\ Created(o)) =>
          /\ HeldBySome(o) => (CallbackFrees(o) = 0 /\ destroyed[o] = 0)
          /\ CallbackFrees(o) >= 1 => destroyed[o] >= 1

\* the debug report the caller built was dropped: its native callback was
\* unregistered and its user callback freed
C31_Witness ==
    \E i \in DOMAIN events[Caller] :
       /\ events[Caller][i].ev = "free"
       /\ result[Caller].obj = events[Caller][i].obj
       /\ Idle(Caller)

\* C32: the native destroy of the instance is called, or next to be called,
\* only when the native destroy of every device and of every debug report
\* built on it has been made; it is called at most once and never while one of
\* them is alive.
C32_InstanceOutlivesAll ==
    \A o \in Obj : (kind[o] \in {"device", "debug_report"} /\ Created(o)) =>
        LET inst == fields[o][1]
        IN /\ kind[inst] = "instance"
           /\ destroyed[inst] <= 1
           /\ (destroyed[inst] >= 1 \/ DestroyPending(inst)) => destroyed[o] = 1
           /\ status[o] = "live" => destroyed[inst] = 0

\* the instance was destroyed after a device and a debug report built on it
C32_Witness ==
    /\ destroyed[InstanceId] = 1
    /\ \E d, p \in Obj : /\ kind[d] = "device" /\ destroyed[d] = 1
                         /\ kind[p] = "debug_report" /\ destroyed[p] = 1

\* thread t's last call was DeviceBuilder::build
DeviceBuildFailed(t, variant) == ~result[t].ok /\ result[t].variant = variant

\* C33: a DeviceBuilder::build whose selector failed returns the selector's
\* error in CreateDeviceError::PhysicalDeviceError, has made no native
\* create-device call and no device, and has released the instance handle it
\* was given when it returns; one whose native create-device call failed with
\* e returns CreateDeviceError::VkError(e) and leaves no device.
C33_DeviceBuildFailure ==
    \A t \in Threads :
       /\ (result[t].variant \in {"CreateDeviceError::PhysicalDeviceError",
                                  "CreateDeviceError::VkError"}) => ~result[t].ok
       /\ DeviceBuildFailed(t, "CreateDeviceError::PhysicalDeviceError") =>
             /\ result[t].native = NotCalled
             /\ result[t].obj = 0
             /\ \E sel \in SelectorOutcomes :
                   ~sel.ok /\ sel.variant = result[t].inner /\ sel.err = result[t].err
             /\ Idle(t) => \A a \in Range(result[t].passed) :
                              ~InSomeCall(a) /\ rc[a] = HeldCount(a) + FieldRefs(a)
       /\ DeviceBuildFailed(t, "CreateDeviceError::VkError") =>
             /\ result[t].native \in ErrCodes
             /\ result[t].err = result[t].native
             /\ result[t].obj # 0
             /\ kind[result[t].obj] = "device" /\ status[result[t].obj] = "failed"
             /\ destroyed[result[t].obj] = 0 /\ rc[result[t].obj] = 0
             /\ Idle(t) => \A a \in Range(result[t].passed) :
                              ~InSomeCall(a) /\ rc[a] = HeldCount(a) + FieldRefs(a)

\* the selector found no physical device; build has returned and the instance
\* is owned by the first device alone
C33_Witness ==
    /\ DeviceBuildFailed(Caller, "CreateDeviceError::PhysicalDeviceError")
    /\ result[Caller].inner = "PhysicalDeviceError::NotFound"
    /\ Idle(Caller)
    /\ rc[InstanceId] = 1 /\ status[DeviceId] = "live"

\* ------------------------------------------------- selector and helper calls
\* families of props that carry every required flag and have a queue
Suitable(props, flags) ==
    {i \in DOMAIN props : flags \subseteq props[i].queue_flags /\ props[i].queue_count >= 1}

\* C34: first_with_flags returns VkError(e) when the enumeration fails with e
\* and NotFound when no device is enumerated; it goes on to the next device
\* only past a device without a suitable family, returns the device it is at
\* with the lowest index of its suitable families and one queue info of count
\* 1 when that device has one, and returns NotFound past the last device.
C34_FirstWithFlags ==
    [][call'.fn = "first_with_flags" =>
         /\ call = NoCall =>
               /\ call'.at = 1
               /\ call'.native # VkSuccess =>
                     call'.ret = [variant |-> "PhysicalDeviceError::VkError",
                                  err |-> call'.native]
               /\ (call'.native = VkSuccess /\ call'.pdevices = 0) =>
                     call'.ret.variant = "PhysicalDeviceError::NotFound"
               /\ (call'.native = VkSuccess /\ call'.pdevices > 0) =>
                     call'.ret.variant = "running"
         /\ (call # NoCall /\ call' # call) =>
               /\ call.fn = "first_with_flags" /\ call.ret.variant = "running"
               /\ call'.flags = call.flags /\ call'.pdevices = call.pdevices
               /\ call.at \in 1..call.pdevices
               /\ LET suit == Suitable(call'.props, call.flags)
                  IN IF suit # {}
                     THEN /\ call'.ret.variant = "Ok"
                          /\ call'.ret.pdevice = call.at
                          /\ Len(call'.ret.queues_info) = 1
                          /\ call'.ret.queues_info[1].count = 1
                          /\ call'.ret.queues_info[1].family_index + 1 \in suit
                          /\ \A i \in suit :
                                call'.ret.queues_info[1].family_index + 1 <= i
                     ELSE IF call.at = call.pdevices
                     THEN call'.ret.variant = "PhysicalDeviceError::NotFound"
                     ELSE call'.ret.variant = "running" /\ call'.at = call.at + 1]_vars

\* the second device enumerated was selected by its second family, whose
\* first family has the flags but no queue
C34_Witness ==
    /\ call.fn = "first_with_flags"
    /\ call.ret.variant = "Ok"
    /\ call.ret.pdevice = 2
    /\ call.ret.queues_info[1].family_index = 1
    /\ call.flags # {}
    /\ call.flags \subseteq call.props[1].queue_flags

\* C35: MessageLevel::from decodes every set of report flags by priority:
\* ERROR, WARNING, PERFORMANCE_WARNING, DEBUG, INFORMATION, and gives Error
\* for the empty set.
C35_MessageLevelPriority ==
    call.fn = "MessageLevel::from" =>
       LET f == call.flags
       IN /\ call.ret \in {"Information", "Warning", "Perfomance", "Error", "Debug"}
          /\ call.ret = "Error" <=> ("ERROR" \in f \/ f = {})
          /\ call.ret = "Warning" <=> ("WARNING" \in f /\ "ERROR" \notin f)
          /\ call.ret = "Perfomance" <=>
                ("PERFORMANCE_WARNING" \in f /\ f \cap {"ERROR", "WARNING"} = {})
          /\ call.ret = "Debug" <=>
                ("DEBUG" \in f /\ f \cap {"ERROR", "WARNING", "PERFORMANCE_WARNING"} = {})
          /\ call.ret = "Information" <=> f = {"INFORMATION"}

\* a report with all five flags set was decoded
C35_Witness ==
    /\ call.fn = "MessageLevel::from"
    /\ call.flags = ReportFlags
    /\ call.ret = "Error"

\* C36: debug_report_callback calls the user callback once, with the text of
\* the message and the level of the flags, when the user data is not null,
\* does not call it when it is null, and returns FALSE.
C36_ReportDelivered ==
    call.fn = "debug_report_callback" =>
       /\ call.out.ret = "FALSE"
       /\ call.user_data = "null" => call.out.invoked = <<>>
       /\ call.user_data # "null" =>
             /\ Len(call.out.invoked) = 1
             /\ call.out.invoked[1].level = MessageLevelFrom(call.flags)
             /\ Len(call.out.invoked[1].text) = Len(call.message)
             /\ \A i \in DOMAIN call.message :
                   \/ call.out.invoked[1].text[i] = call.message[i]
                   \/ call.message[i] = "0xFF" /\ call.out.invoked[1].text[i] = "U+FFFD"

\* an error report with a message was delivered to the user callback
C36_Witness ==
    /\ call.fn = "debug_report_callback"
    /\ call.user_data = "callback"
    /\ "ERROR" \in call.flags
    /\ call.message = <<"a", "a">>
    /\ call.out.invoked = <<[text |-> <<"a", "a">>, level |-> "Error"]>>

\* C37: raw_name_to_c_string returns the empty string for an empty slice; for
\* a slice of n > 0 elements it writes 0 to the last element and to no other,
\* and returns the elements before the first 0 of the slice, at most n - 1.
C37_RawNameTruncated ==
    call.fn = "raw_name_to_c_string" =>
       LET raw == call.raw
           after == call.out.raw
           ret == call.out.ret
           n == Len(raw)
       IN /\ Len(after) = n
          /\ n = 0 => ret = <<>>
          /\ n > 0 =>
                /\ after[n] = 0
                /\ \A i \in 1..(n - 1) : after[i] = raw[i]
                /\ Len(ret) <= n - 1
                /\ \A i \in DOMAIN ret : ret[i] = raw[i] /\ raw[i] # 0
                /\ after[Len(ret) + 1] = 0

\* a name that filled the array lost its last character
C37_Witness ==
    /\ call.fn = "raw_name_to_c_string"
    /\ call.raw = <<65, 66, 65>>
    /\ call.out.ret = <<65, 66>>
    /\ call.out.raw = <<65, 66, 0>>

\* C38: after QueueCreateInfosBuilder::build the priorities are as many 1.0
\* as the largest queue count (none without queue infos), every queue info
\* points at them, and the queue infos are those given to new.
C38_SharedPriorities ==
    call.fn = "QueueCreateInfosBuilder::build" =>
       LET infos == call.infos
           out == call.out
       IN /\ Len(out.queue_infos) = Len(infos)
          /\ \A i \in DOMAIN infos :
                /\ out.queue_infos[i].queue_family_index = infos[i].family_index
                /\ out.queue_infos[i].queue_count = infos[i].count
                /\ out.queue_infos[i].p_queue_priorities = out.prioreties.addr
                /\ out.queue_infos[i].queue_count <= Len(out.prioreties.data)
          /\ \A i \in DOMAIN out.prioreties.data : out.prioreties.data[i] = "1.0"
          /\ infos = <<>> => out.prioreties.data = <<>>
          /\ infos # <<>> =>
                \E i \in DOMAIN infos : Len(out.prioreties.data) = infos[i].count

\* two queue infos, the second with more queues than the first
C38_Witness ==
    /\ call.fn = "QueueCreateInfosBuilder::build"
    /\ Len(call.infos) = 2
    /\ call.infos[1].count = 1 /\ call.infos[2].count = 2
    /\ Len(call.out.prioreties.data) = 2

====
